---- MODULE Spec2Model ----
(***************************************************************************)
(* Model of simple-RNN/main.ipynb: the batch windower get_batches (a       *)
(* Python generator over numpy views) and the constrained sampler          *)
(* pick_top_n.                                                             *)
(*                                                                         *)
(* Python indices are 0-based, TLA+ sequences 1-based: cell [i][j] of the  *)
(* code is cell [i+1][j+1] here, and arr[p] is arr[p+1].  A numpy view is  *)
(* modelled as the sequence of positions of the base buffer it shows.      *)
(***************************************************************************)
EXTENDS Integers, Sequences, FiniteSets, TLC

\* ---- bounds of the model ----
MaxLen == 6
MaxSym == 1
MaxDim == 2
MaxV == 3
Denom == 3
MaxCalls == 2
MaxChar == 3
MaxText == 4
MaxCorpus == 3
MaxEpochs == 2
MaxPrime == 2
MaxSamples == 2

Symbols == 0..MaxSym
Arrays == UNION {[1..l -> Symbols] : l \in 0..MaxLen}
Dims == (0 - MaxDim)..MaxDim

VARIABLES
    arr, batch_size, n_steps,   \* the arguments of get_batches
    pc,                         \* generator: "start", "suspended", "closed"
    lanes,                      \* arr after truncation and reshape (a view)
    n,                          \* the loop variable of the generator
    yielded,                    \* the batches yielded so far, in order
    last,                       \* outcome of the latest request
    errored,                    \* the generator body raised an exception
    starts,                     \* the window starts n of the batches in yielded
    calls,                      \* the number of get_batches calls so far
    prev,                       \* what the previous generator yielded in all
    preds, vocab_size, top_n,   \* the arguments of pick_top_n
    preds_in,                   \* the values preds held when it was passed
    spc,                        \* pick_top_n: "ready", "returned", "error"
    c,                          \* the symbol pick_top_n returned
    text,                       \* the corpus, a sequence of code points
    vocab, vocab_to_int, int_to_vocab, encoded,
    vpc,                        \* vocabulary cell: "loaded", "built"
    tpc,                        \* training cell: "epoch", "batches", "done", "error"
    e,                          \* the epoch loop variable
    initial_state,              \* the recurrent state the next step is fed
    fed,                        \* one record per training step run, in order
    loss_batch, train_losses,
    gpc,                        \* sampling cell: "prime", "samples", "done", "error"
    prime, n_samples,           \* the inputs of the sampling cell
    samples,                    \* the characters produced so far
    inputs,                     \* inputs[0,0], the symbol the next step is fed
    gi,                         \* prime characters fed; then i, the sample loop variable
    steps,                      \* one record per step of the network, in order
    picks                       \* the symbols pick_top_n returned, in order

varsGen == <<pc, lanes, n, yielded, last, errored, starts>>
varsB == <<arr, batch_size, n_steps, varsGen, calls, prev>>
varsS == <<preds, vocab_size, top_n, preds_in, spc, c>>
varsV == <<text, vocab, vocab_to_int, int_to_vocab, encoded, vpc>>
varsT == <<tpc, e, initial_state, fed, loss_batch, train_losses>>
varsG == <<gpc, prime, n_samples, samples, inputs, gi, steps, picks>>
varsDrv == <<varsV, varsT, varsG>>
vars == <<varsB, varsS, varsDrv>>

\* a component that is not in use
WindowerIdle ==
    /\ arr = <<>> /\ batch_size = 0 /\ n_steps = 0 /\ pc = "idle"
    /\ lanes = <<>> /\ n = 0 /\ yielded = <<>> /\ last = "none"
    /\ errored = FALSE /\ starts = <<>> /\ calls = 0 /\ prev = <<>>

SamplerIdle ==
    /\ preds = <<>> /\ preds_in = <<>> /\ vocab_size = 0 /\ top_n = 0
    /\ spc = "idle" /\ c = -1

VocabIdle ==
    /\ text = <<>> /\ vocab = <<>> /\ vocab_to_int = <<>>
    /\ int_to_vocab = <<>> /\ encoded = <<>> /\ vpc = "idle"

TrainIdle ==
    /\ tpc = "idle" /\ e = 0 /\ initial_state = -1 /\ fed = <<>>
    /\ loss_batch = <<>> /\ train_losses = <<>>

SamplingIdle ==
    /\ gpc = "idle" /\ prime = <<>> /\ n_samples = 0 /\ samples = <<>>
    /\ inputs = -1 /\ gi = 0 /\ steps = <<>> /\ picks = <<>>

Min(a, b) == IF a < b THEN a ELSE b
Max(a, b) == IF a > b THEN a ELSE b

\* Python's a // b for b # 0 (rounds towards minus infinity)
FloorDiv(a, b) == IF b > 0 THEN a \div b ELSE (0 - a) \div (0 - b)

\* Python's clamping of a slice bound against a length
Clamp(i, len) == IF i < 0 THEN Max(len + i, 0) ELSE Min(i, len)

\* s[lo:hi] of Python on a 1-based sequence
Slice(s, lo, hi) ==
    LET a == Clamp(lo, Len(s))
        b == Clamp(hi, Len(s))
    IN IF b <= a THEN <<>> ELSE [k \in 1..(b - a) |-> s[a + k]]

\* the view of a whole buffer of length len
WholeView(len) == [k \in 1..len |-> k]

\* ---- get_batches ----
chars_per_batch == batch_size * n_steps

n_batches == FloorDiv(Len(arr), chars_per_batch)

\* a get_batches that keeps the whole of arr
TruncatedNone == WholeView(Len(arr))

\* arr[:n_batches * chars_per_batch]
Truncated == Slice(WholeView(Len(arr)), 0, n_batches * chars_per_batch)

\* arr.reshape((rows, -1)) is possible
ReshapeOK(size, rows) == rows > 0 /\ size % rows = 0

\* a reshape that deals the elements out to the rows in turn
ReshapeStrided(v, rows) ==
    LET cols == Len(v) \div rows
    IN [i \in 1..rows |-> [j \in 1..cols |-> v[(j - 1) * rows + i]]]

\* arr.reshape((rows, -1)), row-major
Reshape(v, rows) ==
    LET cols == Len(v) \div rows
    IN [i \in 1..rows |-> [j \in 1..cols |-> v[(i - 1) * cols + j]]]

\* arr.shape[1]
LaneLength(m) == IF Len(m) = 0 THEN 0 ELSE Len(m[1])

\* m[:, lo:hi]
Columns(m, lo, hi) == [i \in 1..Len(m) |-> Slice(m[i], lo, hi)]

\* a range that includes its stop
InRangeInclusive(k, stop, step) == IF step > 0 THEN k <= stop ELSE k >= stop

\* k in range(0, stop, step), for a k the range steps on
InRange(k, stop, step) == IF step > 0 THEN k < stop ELSE k > stop

\* x = arr[:, n:n+n_steps]
XView(m, k) == Columns(m, k, k + n_steps)

\* a y_temp that is not shifted
YTempUnshifted(m, k) == Columns(m, k, k + n_steps)

\* y_temp = arr[:, n+1:n+n_steps+1]
YTemp(m, k) == Columns(m, k + 1, k + n_steps + 1)

\* the values a view shows
Values(v) == [i \in 1..Len(v) |-> [j \in 1..Len(v[i]) |-> arr[v[i][j]]]]

\* a y that is y_temp itself, one column short in the last window
YSrcNoPad(xv, yt) ==
    [i \in 1..Len(xv) |-> [j \in 1..Len(yt[i]) |-> yt[i][j]]]

\* a y that wraps around to the first column of its own window
YSrcWrap(xv, yt) ==
    [i \in 1..Len(xv) |->
        [j \in 1..Len(xv[i]) |-> IF j <= Len(yt[i]) THEN yt[i][j] ELSE xv[i][1]]]

\* y = np.zeros(x.shape); y[:, :y_temp.shape[1]] = y_temp.
\* ysrc is the position of arr each cell was copied from, 0 for a cell
\* that keeps the zero of np.zeros.
YSrc(xv, yt) ==
    [i \in 1..Len(xv) |->
        [j \in 1..Len(xv[i]) |-> IF j <= Len(yt[i]) THEN yt[i][j] ELSE 0]]

YValues(ys) ==
    [i \in 1..Len(ys) |->
        [j \in 1..Len(ys[i]) |-> IF ys[i][j] = 0 THEN 0 ELSE arr[ys[i][j]]]]

\* the pair the generator yields for window start k
Batch(m, k) ==
    LET xv == XView(m, k)
        ys == YSrc(xv, YTemp(m, k))
    IN [x |-> Values(xv), y |-> YValues(ys), xsrc |-> xv, ysrc |-> ys]

\* the loop header, entered with loop variable k: yield or fall off the end
LoopAt(m, k) ==
    IF InRange(k, LaneLength(m), n_steps)
    THEN /\ yielded' = Append(yielded, Batch(m, k))
         /\ starts' = Append(starts, k)
         /\ pc' = "suspended"
         /\ last' = "batch"
    ELSE /\ yielded' = yielded
         /\ starts' = starts
         /\ pc' = "closed"
         /\ last' = "stop"

\* the generator body run from its first line up to its first yield
GenFirst ==
    /\ pc = "start"
    /\ IF chars_per_batch = 0 \/ ~ReshapeOK(Len(Truncated), batch_size)
       THEN /\ pc' = "closed"
            /\ last' = "error"
            /\ errored' = TRUE
            /\ UNCHANGED <<lanes, n, yielded, starts>>
       ELSE /\ lanes' = Reshape(Truncated, batch_size)
            /\ n' = 0
            /\ errored' = errored
            /\ LoopAt(lanes', 0)

\* the generator body resumed after a yield
GenResume ==
    /\ pc = "suspended"
    /\ n' = n + n_steps
    /\ LoopAt(lanes, n')
    /\ UNCHANGED <<lanes, errored>>

\* a generator that starts over when it is asked again after its end
GenClosedRestarts ==
    /\ pc = "closed"
    /\ pc' = "start"
    /\ last' = "stop"
    /\ UNCHANGED <<lanes, n, yielded, errored, starts>>

\* a generator that has returned or raised: StopIteration, for good
GenClosed ==
    /\ pc = "closed"
    /\ last' = "stop"
    /\ UNCHANGED <<pc, lanes, n, yielded, errored, starts>>

\* get_batches(arr, batch_size, n_steps): a new generator object; none of
\* the body runs before the first next()
GenCall ==
    /\ pc' = "start"
    /\ lanes' = <<>>
    /\ n' = 0
    /\ yielded' = <<>>
    /\ starts' = <<>>
    /\ last' = "none"
    /\ errored' = FALSE

\* the first next() on the generator: the body runs from its first line
FirstNext ==
    /\ GenFirst
    /\ UNCHANGED <<arr, batch_size, n_steps, calls, prev, varsS, varsDrv>>

\* a later next(): the body resumes after the yield
ResumeNext ==
    /\ GenResume
    /\ UNCHANGED <<arr, batch_size, n_steps, calls, prev, varsS, varsDrv>>

\* next() on a generator that has returned or raised: StopIteration
ClosedNext ==
    /\ GenClosed
    /\ UNCHANGED <<arr, batch_size, n_steps, calls, prev, varsS, varsDrv>>

\* get_batches called again with the same arguments, once the generator
\* of the call before is exhausted (as the epoch loop does)
CallAgain ==
    /\ pc = "closed"
    /\ calls < MaxCalls
    /\ calls' = calls + 1
    /\ prev' = yielded
    /\ GenCall
    /\ UNCHANGED <<arr, batch_size, n_steps, varsS, varsDrv>>

\* ---- pick_top_n ----
\* A probability is modelled as a number of Denom-ths: preds[i] = w means
\* the float w / Denom.
Vectors == UNION {[1..v -> 0..Denom] : v \in 1..MaxV}
TopNs == (0 - MaxV - 1)..(MaxV + 1)

RECURSIVE SumTo(_, _)
SumTo(p, k) == IF k = 0 THEN 0 ELSE p[k] + SumTo(p, k - 1)

\* np.sum(p)
Sum(p) == SumTo(p, Len(p))

Range(s) == {s[k] : k \in 1..Len(s)}

\* np.argsort(p): the positions of p in ascending order of value; the
\* order of equal values is unspecified
Argsorts(p) ==
    {f \in [1..Len(p) -> 1..Len(p)] :
        /\ \A a, b \in 1..Len(p) : a # b => f[a] # f[b]
        /\ \A a \in 1..(Len(p) - 1) : p[f[a]] <= p[f[a + 1]]}

\* a slice that keeps one position more than top_n
DroppedOffByOne(perm, k) == Range(Slice(perm, 0, 0 - k - 1))

\* np.argsort(p)[:-top_n], as a set of positions
Dropped(perm, k) == Range(Slice(perm, 0, 0 - k))

\* p[idx] = 0
Zeroed(p, idx) == [i \in 1..Len(p) |-> IF i \in idx THEN 0 ELSE p[i]]

\* a renormalization that falls back to the uniform distribution when
\* the weights sum to zero
NormalizedOrUniform(p) ==
    [i \in 1..Len(p) |-> IF Sum(p) = 0 THEN <<1, Len(p)>> ELSE <<p[i], Sum(p)>>]

\* p / np.sum(p), each entry as <<numerator, denominator>>; a zero
\* denominator is numpy's NaN
Normalized(p) == [i \in 1..Len(p) |-> <<p[i], Sum(p)>>]

\* np.random.choice(size, 1, p=q) raises ValueError
ChoiceRaises(size, q) ==
    \/ Len(q) # size
    \/ \E i \in 1..Len(q) : q[i][2] = 0

\* a draw that ignores the weights
CanDrawAny(size, q, d) == d \in 0..(size - 1)

\* np.random.choice(size, 1, p=q)[0] can be d
CanDraw(size, q, d) == d \in 0..(size - 1) /\ q[d + 1][1] > 0

\* np.squeeze(preds) drops every axis of length 1, the axis of the
\* entries too when preds has a single entry: p is then 0-dimensional and
\* indexing it with the argsort slice raises IndexError
SqueezedIsScalar(v) == Len(v) = 1

\* pick_top_n(p0, size, k): every way the call can end, as the array the
\* caller's preds holds afterwards, "returned" or "error", and the index
\* returned.  p = np.squeeze(preds) is a view of preds: the assignment
\* through p writes the caller's array; p / np.sum(p) is a new array.
PickOutcomes(p0, size, k) ==
    IF SqueezedIsScalar(p0)
    THEN {[preds |-> p0, status |-> "error", c |-> -1]}
    ELSE UNION {
            LET p == Zeroed(p0, Dropped(perm, k))
                q == Normalized(p)
            IN IF ChoiceRaises(size, q)
               THEN {[preds |-> p, status |-> "error", c |-> -1]}
               ELSE {[preds |-> p, status |-> "returned", c |-> d] :
                        d \in {dd \in 0..(size - 1) : CanDraw(size, q, dd)}}
            : perm \in Argsorts(p0)}

pick_top_n ==
    /\ spc = "ready"
    /\ \E o \in PickOutcomes(preds, vocab_size, top_n) :
          /\ preds' = o.preds
          /\ spc' = o.status
          /\ c' = IF o.status = "returned" THEN o.c ELSE c
    /\ UNCHANGED <<vocab_size, top_n, preds_in, varsB, varsDrv>>

InitSampler ==
    /\ preds \in Vectors
    /\ preds_in = preds
    /\ vocab_size \in 1..MaxV
    /\ top_n \in TopNs
    /\ spc = "ready"
    /\ c = -1
    /\ WindowerIdle
    /\ VocabIdle
    /\ TrainIdle
    /\ SamplingIdle

NextSampler == pick_top_n

SpecSampler == InitSampler /\ [][NextSampler]_vars

\* ---- the vocabulary cell ----
\* A character is modelled as its code point; Python orders characters by
\* code point.  A dict is a function on its keys.
Chars == 1..MaxChar
Texts == UNION {[1..l -> Chars] : l \in 0..MaxText}

SetMin(S) == CHOOSE m \in S : \A x \in S : m <= x
SetMax(S) == CHOOSE m \in S : \A x \in S : m >= x

\* a vocabulary listed in descending order
RECURSIVE SortedDescending(_)
SortedDescending(S) ==
    IF S = {} THEN <<>> ELSE <<SetMax(S)>> \o SortedDescending(S \ {SetMax(S)})

\* sorted(S)
RECURSIVE Sorted(_)
Sorted(S) == IF S = {} THEN <<>> ELSE <<SetMin(S)>> \o Sorted(S \ {SetMin(S)})

\* list(enumerate(v)): the pairs (0, v[0]), (1, v[1]), ...
Enumerate(v) == [k \in 1..Len(v) |-> <<k - 1, v[k]>>]

\* the dict of the first k (key, value) pairs; a later pair replaces an
\* earlier one of the same key
RECURSIVE DictOf(_, _)
DictOf(pairs, k) ==
    IF k = 0 THEN <<>>
    ELSE (pairs[k][1] :> pairs[k][2]) @@ DictOf(pairs, k - 1)

\* {c: i for i, c in enumerate(vocab)}
VocabToInt(v) ==
    LET en == Enumerate(v)
    IN DictOf([k \in 1..Len(en) |-> <<en[k][2], en[k][1]>>], Len(en))

\* a decoding table numbered from 1
IntToVocabFromOne(v) ==
    LET en == Enumerate(v)
    IN DictOf([k \in 1..Len(en) |-> <<en[k][1] + 1, en[k][2]>>], Len(en))

\* dict(enumerate(vocab))
IntToVocab(v) == DictOf(Enumerate(v), Len(v))

\* np.array([vocab_to_int[c] for c in text], dtype=np.int32)
Encode(t, table) == [k \in 1..Len(t) |-> table[t[k]]]

\* the cell that builds vocab, both tables and the encoded corpus
BuildVocab ==
    /\ vpc = "loaded"
    /\ vocab' = Sorted(Range(text))
    /\ vocab_to_int' = VocabToInt(vocab')
    /\ int_to_vocab' = IntToVocab(vocab')
    /\ encoded' = Encode(text, vocab_to_int')
    /\ vpc' = "built"
    /\ UNCHANGED <<text, varsB, varsS, varsT, varsG>>

InitVocab ==
    /\ text \in Texts
    /\ vocab = <<>>
    /\ vocab_to_int = <<>>
    /\ int_to_vocab = <<>>
    /\ encoded = <<>>
    /\ vpc = "loaded"
    /\ WindowerIdle
    /\ SamplerIdle
    /\ TrainIdle
    /\ SamplingIdle

NextVocab == BuildVocab

SpecVocab == InitVocab /\ [][NextVocab]_vars


\* ---- the training cell ----
\* The network is external.  sess.run(model.initial_state) gives the zero
\* state, named 0; the final state a training step returns is named by
\* the number of the step that returned it (1, 2, ...), so that two
\* states are equal only if they come from the same place.  A loss is one
\* of two values.  A mean is the pair <<sum, count>>; count 0 is NaN.
Losses == {0, 1}

\* a corpus of each length
Ramp(l) == [k \in 1..l |-> (k - 1) % (MaxSym + 1)]

\* a driver that keeps the state of the epoch before
StateCarriedOver == initial_state

\* sess.run(model.initial_state)
ZeroState == 0

\* the mean of the losses of the last epoch alone
MeanOfLastEpoch(l) ==
    <<Sum(SubSeq(l, Len(l) - Len(yielded) + 1, Len(l))), Len(yielded)>>

\* np.mean(l)
Mean(l) == <<Sum(l), Len(l)>>

\* for e in range(epochs): initial_state = sess.run(model.initial_state);
\* get_batches(encoded, batch_size, num_steps)
EpochStart ==
    /\ tpc = "epoch"
    /\ e < MaxEpochs
    /\ initial_state' = ZeroState
    /\ GenCall
    /\ calls' = calls + 1
    /\ prev' = yielded
    /\ tpc' = "batches"
    /\ UNCHANGED <<arr, batch_size, n_steps, e, fed, loss_batch, train_losses,
                   varsS, varsV, varsG>>

\* the inner for asks the generator for a batch; with a batch it runs one
\* training step and appends its loss; at StopIteration it prints and
\* appends the mean and the epoch is over; an exception ends the cell
TrainStep ==
    /\ tpc = "batches"
    /\ GenFirst \/ GenResume
    /\ IF last' = "batch"
       THEN /\ \E loss \in Losses : loss_batch' = Append(loss_batch, loss)
            /\ fed' = Append(fed, [epoch |-> e,
                                   state |-> initial_state,
                                   inputs |-> yielded'[Len(yielded')].x,
                                   targets |-> yielded'[Len(yielded')].y,
                                   final |-> Len(fed) + 1])
            /\ initial_state' = Len(fed) + 1
            /\ UNCHANGED <<tpc, e, train_losses>>
       ELSE IF last' = "stop"
       THEN /\ train_losses' = Append(train_losses, Mean(loss_batch))
            /\ e' = e + 1
            /\ tpc' = IF e' < MaxEpochs THEN "epoch" ELSE "done"
            /\ UNCHANGED <<initial_state, fed, loss_batch>>
       ELSE /\ tpc' = "error"
            /\ UNCHANGED <<e, initial_state, fed, loss_batch, train_losses>>
    /\ UNCHANGED <<arr, batch_size, n_steps, calls, prev, varsS, varsV, varsG>>

InitTrain ==
    /\ arr \in {Ramp(l) : l \in 0..MaxCorpus}
    /\ batch_size \in 1..MaxDim
    /\ n_steps \in 1..MaxDim
    /\ pc = "idle"
    /\ lanes = <<>> /\ n = 0 /\ yielded = <<>> /\ last = "none"
    /\ errored = FALSE /\ starts = <<>> /\ calls = 0 /\ prev = <<>>
    /\ tpc = "epoch"
    /\ e = 0
    /\ initial_state = -1
    /\ fed = <<>>
    /\ loss_batch = <<>>
    /\ train_losses = <<>>
    /\ SamplerIdle
    /\ VocabIdle
    /\ SamplingIdle

NextTrain == EpochStart \/ TrainStep

SpecTrain == InitTrain /\ [][NextTrain]_vars

\* ---- the sampling cell ----
\* The network is external: a step returns any probability vector over
\* the vocabulary (predictions has shape (1, V)) and a final state named
\* by the number of the step, as in the training cell.
DefaultTopN == 5

\* one text for each vocabulary
Alphabets == {Sorted(S) : S \in SUBSET Chars}
Primes == UNION {[1..l -> Chars] : l \in 0..MaxPrime}

ProbVectors(v) == {p \in [1..v -> 0..Denom] : Sum(p) = Denom}

\* predictions, initial_state = sess.run([model.predictions,
\* model.final_state], ...) fed the symbol sym, with predictions pr
Stepped(sym, pr) ==
    /\ steps' = Append(steps, [input |-> sym,
                               state |-> IF steps = <<>> THEN ZeroState
                                         ELSE steps[Len(steps)].final,
                               final |-> Len(steps) + 1])
    /\ preds_in' = pr

\* c = pick_top_n(preds=predictions, vocab_size=len(vocab));
\* samples.append(int_to_vocab[c]); an exception ends the cell
Picked(pr, then) ==
    \E o \in PickOutcomes(pr, Len(vocab), top_n) :
       /\ preds' = o.preds
       /\ spc' = o.status
       /\ IF o.status = "returned"
          THEN /\ c' = o.c
               /\ picks' = Append(picks, o.c)
               /\ samples' = Append(samples, int_to_vocab[o.c])
               /\ gpc' = then
          ELSE /\ gpc' = "error"
               /\ UNCHANGED <<c, picks, samples>>

\* for c in prime: inputs[0,0] = vocab_to_int[c]; sess.run(...)
PrimeStep ==
    /\ gpc = "prime"
    /\ gi < Len(prime)
    /\ IF prime[gi + 1] \in DOMAIN vocab_to_int
       THEN /\ inputs' = vocab_to_int[prime[gi + 1]]
            /\ \E pr \in ProbVectors(Len(vocab)) :
                  /\ Stepped(inputs', pr)
                  /\ preds' = pr
            /\ gi' = gi + 1
            /\ UNCHANGED gpc
       ELSE /\ gpc' = "error"
            /\ UNCHANGED <<inputs, gi, steps, preds, preds_in>>
    /\ UNCHANGED <<prime, n_samples, samples, picks, vocab_size, top_n, spc, c,
                   varsB, varsV, varsT>>

\* the pick after the prime loop; with an empty prime predictions is not
\* defined and the cell ends with NameError
FirstPick ==
    /\ gpc = "prime"
    /\ gi = Len(prime)
    /\ IF Len(prime) = 0
       THEN /\ gpc' = "error"
            /\ UNCHANGED <<preds, spc, c, picks, samples>>
       ELSE Picked(preds, "samples")
    /\ gi' = 0
    /\ UNCHANGED <<prime, n_samples, inputs, steps, vocab_size, top_n, preds_in,
                   varsB, varsV, varsT>>

\* for i in range(n_samples): inputs[0,0] = c; sess.run(...); pick
SampleStep ==
    /\ gpc = "samples"
    /\ gi < n_samples
    /\ inputs' = c
    /\ \E pr \in ProbVectors(Len(vocab)) :
          /\ Stepped(c, pr)
          /\ Picked(pr, "samples")
    /\ gi' = gi + 1
    /\ UNCHANGED <<prime, n_samples, vocab_size, top_n, varsB, varsV, varsT>>

\* print(''.join(samples))
Finish ==
    /\ gpc = "samples"
    /\ gi = n_samples
    /\ gpc' = "done"
    /\ UNCHANGED <<prime, n_samples, samples, inputs, gi, steps, picks,
                   varsB, varsS, varsV, varsT>>

InitSampling ==
    /\ text \in Alphabets
    /\ vocab = Sorted(Range(text))
    /\ vocab_to_int = VocabToInt(vocab)
    /\ int_to_vocab = IntToVocab(vocab)
    /\ encoded = Encode(text, vocab_to_int)
    /\ vpc = "built"
    /\ prime \in Primes
    /\ n_samples \in 0..MaxSamples
    /\ samples = prime
    /\ gpc = "prime"
    /\ inputs = -1
    /\ gi = 0
    /\ steps = <<>>
    /\ picks = <<>>
    /\ preds = <<>> /\ preds_in = <<>> /\ spc = "idle" /\ c = -1
    /\ vocab_size = Len(vocab)
    /\ top_n = DefaultTopN
    /\ WindowerIdle
    /\ TrainIdle

NextSampling == PrimeStep \/ FirstPick \/ SampleStep \/ Finish

SpecSampling == InitSampling /\ [][NextSampling]_vars

Init ==
    /\ arr \in Arrays
    /\ batch_size \in Dims
    /\ n_steps \in Dims
    /\ pc = "start"
    /\ lanes = <<>>
    /\ n = 0
    /\ yielded = <<>>
    /\ last = "none"
    /\ errored = FALSE
    /\ starts = <<>>
    /\ calls = 1
    /\ prev = <<>>
    /\ SamplerIdle
    /\ VocabIdle
    /\ TrainIdle
    /\ SamplingIdle

Next == FirstNext \/ ResumeNext \/ ClosedNext

Spec == Init /\ [][Next]_vars

\* get_batches called on a valid shape, iterated, and called again
InitPasses ==
    /\ Init
    /\ batch_size >= 1
    /\ n_steps >= 1

NextPasses == FirstNext \/ ResumeNext \/ ClosedNext \/ CallAgain

SpecPasses == InitPasses /\ [][NextPasses]_vars

\* ---- properties of get_batches ----
ValidShape == batch_size >= 1 /\ n_steps >= 1

\* K = floor(len(arr) / (N*M)), for a valid shape
FullBatches == Len(arr) \div (batch_size * n_steps)

Remainder == Len(arr) % (batch_size * n_steps)

IsShaped(m, rows, cols) ==
    /\ Len(m) = rows
    /\ \A i \in 1..rows : Len(m[i]) = cols

\* C1: with N, M >= 1 and len(arr) >= N*M a pass yields exactly
\* floor(len(arr)/(N*M)) batches, and the input and the target of every
\* batch, the last one included, have N rows and M columns.
C1_CountAndShape ==
    (ValidShape /\ Len(arr) >= batch_size * n_steps) =>
        /\ ~errored
        /\ Len(yielded) <= FullBatches
        /\ (pc = "closed" => Len(yielded) = FullBatches)
        /\ (pc = "suspended" => Len(yielded) >= 1)
        /\ \A k \in 1..Len(yielded) :
              /\ IsShaped(yielded[k].x, batch_size, n_steps)
              /\ IsShaped(yielded[k].y, batch_size, n_steps)

C1_Witness ==
    /\ ValidShape
    /\ pc = "closed"
    /\ Len(yielded) = 2
    /\ batch_size = 2
    /\ Remainder > 0
    /\ IsShaped(yielded[2].y, 2, n_steps)

\* C2: in every batch but the last of the pass, the target is the input
\* shifted by one within the lane: target[i][j] = input[i][j+1] for
\* j < M-1, and target[i][M-1] = input[i][0] of the next batch.
C2_TargetIsShiftedInput ==
    ValidShape =>
        \A k \in 1..Len(yielded) :
            k < FullBatches =>
                \A i \in 1..batch_size : \A j \in 1..n_steps :
                    /\ yielded[k].ysrc[i][j] = yielded[k].xsrc[i][j] + 1
                    /\ j < n_steps =>
                          yielded[k].y[i][j] = yielded[k].x[i][j + 1]
                    /\ (j = n_steps /\ k < Len(yielded)) =>
                          yielded[k].y[i][j] = yielded[k + 1].x[i][1]

C2_Witness ==
    /\ ValidShape
    /\ n_steps = 2
    /\ Len(yielded) = 3
    /\ yielded[1].x[1] = <<0, 1>>
    /\ yielded[1].y[1] = <<1, 0>>
    /\ yielded[2].x[1] = <<0, 1>>

\* C3: the k-th batch (k = 0..K-1) has input[i][j] = arr[i*K*M + k*M + j]:
\* lanes are contiguous runs of length K*M, and every position of the
\* truncated prefix is shown by exactly one input cell of the pass.
C3_LanesAreContiguousRuns ==
    ValidShape =>
        /\ \A k \in 1..Len(yielded) :
              \A i \in 1..batch_size : \A j \in 1..n_steps :
                 LET p == (i - 1) * FullBatches * n_steps + (k - 1) * n_steps + j
                 IN /\ yielded[k].xsrc[i][j] = p
                    /\ yielded[k].x[i][j] = arr[p]
        /\ pc = "closed" =>
              \A p \in 1..(batch_size * n_steps * FullBatches) :
                 Cardinality({t \in (1..Len(yielded)) \X (1..batch_size) \X (1..n_steps) :
                                 yielded[t[1]].xsrc[t[2]][t[3]] = p}) = 1

C3_Witness ==
    /\ ValidShape
    /\ pc = "closed"
    /\ batch_size = 2
    /\ n_steps = 1
    /\ Len(yielded) = 3
    /\ arr = <<0, 0, 1, 1, 0, 1>>
    /\ yielded[3].x = <<<<1>>, <<1>>>>

\* the number of target cells of lane i, over the batches yielded so far,
\* that keep the zero of np.zeros
ZeroFilled(i) ==
    Cardinality({t \in (1..Len(yielded)) \X (1..n_steps) :
                    yielded[t[1]].ysrc[i][t[2]] = 0})

\* C4: in the final batch target[i][M-1] = 0 for every lane i, whatever
\* arr holds; every other target cell of the pass holds the lane's next
\* symbol, so a pass has exactly one zero-filled target cell per lane.
C4_FinalTargetColumnIsZero ==
    ValidShape =>
        /\ \A k \in 1..Len(yielded) :
              \A i \in 1..batch_size :
                 /\ Len(yielded[k].y[i]) = n_steps
                 /\ \A j \in 1..n_steps :
                       IF k = FullBatches /\ j = n_steps
                       THEN /\ yielded[k].ysrc[i][j] = 0
                            /\ yielded[k].y[i][j] = 0
                       ELSE /\ yielded[k].ysrc[i][j] = yielded[k].xsrc[i][j] + 1
                            /\ yielded[k].y[i][j] = arr[yielded[k].xsrc[i][j] + 1]
        /\ (pc = "closed" /\ FullBatches >= 1) =>
              \A i \in 1..batch_size : ZeroFilled(i) = 1

C4_Witness ==
    /\ ValidShape
    /\ pc = "closed"
    /\ batch_size = 2
    /\ n_steps = 2
    /\ arr = <<1, 1, 1, 1, 1>>
    /\ yielded = <<[x |-> <<<<1, 1>>, <<1, 1>>>>, y |-> <<<<1, 0>>, <<1, 0>>>>,
                   xsrc |-> <<<<1, 2>>, <<3, 4>>>>, ysrc |-> <<<<2, 0>>, <<4, 0>>>>]>>

\* C5: if len(arr) = N*M*K + r with K >= 1 and 0 < r < N*M, no element at
\* an index >= N*M*K is read into an input or a target cell, and the
\* truncation raises no error.
C5_TailIsNeverRead ==
    (ValidShape /\ FullBatches >= 1 /\ Remainder > 0) =>
        /\ ~errored
        /\ pc # "start" => Len(yielded) >= 1
        /\ \A k \in 1..Len(yielded) :
              \A i \in 1..Len(yielded[k].xsrc) :
                 /\ \A j \in 1..Len(yielded[k].xsrc[i]) :
                       yielded[k].xsrc[i][j] <= batch_size * n_steps * FullBatches
                 /\ \A j \in 1..Len(yielded[k].ysrc[i]) :
                       yielded[k].ysrc[i][j] <= batch_size * n_steps * FullBatches

C5_Witness ==
    /\ ValidShape
    /\ pc = "closed"
    /\ ~errored
    /\ Len(arr) = 5
    /\ batch_size = 2
    /\ n_steps = 1
    /\ Len(yielded) = 2
    /\ yielded[2].xsrc = <<<<2>>, <<4>>>>

\* C9: with N, M >= 1 and len(arr) < N*M the pass ends in an error or as
\* an empty sequence; no batch is ever yielded.
C9_InsufficientDataYieldsNothing ==
    (ValidShape /\ Len(arr) < batch_size * n_steps) =>
        /\ yielded = <<>>
        /\ last # "batch"
        /\ pc # "suspended"
        /\ (pc = "closed" => (errored \/ last = "stop"))

C9_Witness ==
    /\ ValidShape
    /\ Len(arr) = 3
    /\ batch_size = 2
    /\ n_steps = 2
    /\ pc = "closed"
    /\ last = "stop"
    /\ ~errored

\* C10: whenever batch_size <= 0 or n_steps <= 0, get_batches ends in an
\* error; it never completes normally, neither by yielding a batch nor by
\* producing an empty sequence.
C10_InvalidShapeRaises ==
    ((batch_size <= 0 \/ n_steps <= 0) /\ pc # "start") =>
        (errored /\ yielded = <<>>)

\* ---- properties of pick_top_n ----
IsProbVector(p) == Sum(p) = Denom

InRangeTopN == 1 <= top_n /\ top_n <= vocab_size

\* the number of entries of p strictly larger than p[i]
StrictlyLarger(p, i) == Cardinality({k \in 1..Len(p) : p[k] > p[i]})

\* C6: for a probability vector of length V and 1 <= top_n <= V, the
\* returned index has an original probability among the top_n largest
\* entries or tied with the top_n-th largest, never strictly smaller.
C6_ReturnsOneOfTopN ==
    (spc = "returned" /\ IsProbVector(preds_in) /\ InRangeTopN) =>
        /\ c \in 0..(vocab_size - 1)
        /\ StrictlyLarger(preds_in, c + 1) < top_n

C6_Witness ==
    /\ spc = "returned"
    /\ preds_in = <<1, 0, 2>>
    /\ vocab_size = 3
    /\ top_n = 2
    /\ c = 0

\* C7: after a call of pick_top_n the caller's preds array holds the
\* values it held before the call (stated for the calls inside the
\* contract: a probability vector, 1 <= top_n <= V, a normal return).
C7_PredsUnchanged ==
    (spc = "returned" /\ IsProbVector(preds_in) /\ InRangeTopN) =>
        preds = preds_in

\* C8: whenever top_n <= 0 or top_n > vocab_size, pick_top_n ends in an
\* error and returns no symbol.
C8_InvalidTopNRaises ==
    (spc \in {"returned", "error"} /\ ~InRangeTopN) => spc = "error"

\* ---- the generator as a sequence ----
\* the window starts 0, M, 2M, ... of the first k batches
StartsUpTo(k) == [t \in 1..k |-> (t - 1) * n_steps]

IsPrefix(s, t) == Len(s) <= Len(t) /\ \A k \in 1..Len(s) : s[k] = t[k]

\* in every state: the batches yielded so far are the windows 0, M, 2M,
\* ... in that order, each once, at most n_batches of them; an exhausted
\* generator has yielded all n_batches; a later call repeats the pass
C11_PassSoFar ==
    /\ ~errored
    /\ Len(yielded) <= FullBatches
    /\ starts = StartsUpTo(Len(yielded))
    /\ \A k \in 1..Len(yielded) : yielded[k] = Batch(lanes, (k - 1) * n_steps)
    /\ \A j, k \in 1..Len(yielded) : j < k => yielded[j].xsrc # yielded[k].xsrc
    /\ pc = "closed" => Len(yielded) = FullBatches
    /\ calls >= 2 => IsPrefix(yielded, prev)
    /\ (calls >= 2 /\ pc = "closed") => yielded = prev

\* in every step: a request yields at most one batch and never changes
\* one yielded before; a request on an exhausted generator yields nothing
\* and leaves it exhausted
C11_RequestStep ==
    (calls' = calls) =>
        /\ IsPrefix(yielded, yielded')
        /\ Len(yielded') <= Len(yielded) + 1
        /\ (Len(yielded') = Len(yielded) + 1) <=> (last' = "batch")
        /\ pc = "closed" => (pc' = "closed" /\ yielded' = yielded /\ last' = "stop")

\* C11: the sequence get_batches returns is lazy, finite and single-pass:
\* one batch per request, in window-start order 0, M, 2M, ..., each once;
\* after the n_batches-th batch it is exhausted and every later request
\* yields nothing; a new call with the same arguments yields the same
\* sequence of batches again from the first window.
C11_LazySinglePass == [](C11_PassSoFar) /\ [][C11_RequestStep]_vars

C11_Witness ==
    /\ calls = 2
    /\ pc = "closed"
    /\ last = "stop"
    /\ n_steps = 2
    /\ batch_size = 1
    /\ starts = <<0, 2, 4>>
    /\ Len(arr) = 6
    /\ prev = yielded

\* one entry of probability 1 and all others 0
IsOneHot(p) ==
    \E h \in 1..Len(p) : p[h] = Denom /\ \A i \in 1..Len(p) : i # h => p[i] = 0

\* C12: for a distribution with one entry of probability 1 and all others
\* 0, and any top_n >= 1, pick_top_n returns that entry's index on every
\* call, for every outcome of the random source.
C12_OneHotReturnsIt ==
    (spc \in {"returned", "error"} /\ IsOneHot(preds_in)
        /\ vocab_size = Len(preds_in) /\ top_n >= 1) =>
        /\ spc = "returned"
        /\ preds_in[c + 1] = Denom

\* C13: when the weights retained by the top-N restriction sum to zero
\* (an all-zero preds, for one), pick_top_n ends in an error and returns
\* no symbol index.
C13_ZeroSumRaises ==
    (spc \in {"returned", "error"} /\ Sum(preds) = 0) =>
        /\ spc = "error"
        /\ c = -1

C13_Witness ==
    /\ spc = "error"
    /\ vocab_size = 2
    /\ preds_in = <<1, 2>>
    /\ top_n = -2
    /\ preds = <<0, 0>>

\* C18: whenever pick_top_n returns normally, for any top_n, the returned
\* index is in [0, vocab_size) and its original probability is strictly
\* positive; a zero-probability index among the retained top-N is never
\* returned.
C18_ReturnsPositiveProbability ==
    spc = "returned" =>
        /\ c \in 0..(vocab_size - 1)
        /\ preds_in[c + 1] > 0

C18_Witness ==
    /\ spc = "returned"
    /\ preds_in = <<0, 0, 3>>
    /\ preds = preds_in
    /\ top_n = 2
    /\ c = 2

\* ---- properties of the vocabulary cell ----
\* the number of distinct characters of the text
V == Cardinality(Range(text))

\* the encoded corpus decoded symbol by symbol
Decoded == [k \in 1..Len(encoded) |-> int_to_vocab[encoded[k]]]

\* C14: int_to_vocab[vocab_to_int[c]] = c for every character c of the
\* observed vocabulary, vocab_to_int[int_to_vocab[i]] = i for every i in
\* [0, V), and decoding the encoded corpus reproduces the text.
C14_VocabularyRoundTrip ==
    vpc = "built" =>
        /\ DOMAIN vocab_to_int = Range(text)
        /\ DOMAIN int_to_vocab = 0..(V - 1)
        /\ \A ch \in Range(text) :
              /\ vocab_to_int[ch] \in DOMAIN int_to_vocab
              /\ int_to_vocab[vocab_to_int[ch]] = ch
        /\ \A i \in 0..(V - 1) :
              /\ int_to_vocab[i] \in DOMAIN vocab_to_int
              /\ vocab_to_int[int_to_vocab[i]] = i
        /\ Len(encoded) = Len(text)
        /\ \A k \in 1..Len(encoded) : encoded[k] \in DOMAIN int_to_vocab
        /\ Decoded = text

C14_Witness ==
    /\ vpc = "built"
    /\ text = <<3, 1, 3, 3>>
    /\ encoded = <<1, 0, 1, 1>>
    /\ int_to_vocab[1] = 3
    /\ vocab_to_int[3] = 1

\* C15: every element of the encoded corpus is in [0, V), V the number of
\* distinct characters of the text; every integer of [0, V) occurs in it;
\* and c1 < c2 implies vocab_to_int[c1] < vocab_to_int[c2].
C15_EncodingIsDenseAndOrdered ==
    vpc = "built" =>
        /\ Len(encoded) = Len(text)
        /\ \A k \in 1..Len(encoded) : encoded[k] \in 0..(V - 1)
        /\ \A i \in 0..(V - 1) : \E k \in 1..Len(encoded) : encoded[k] = i
        /\ \A c1, c2 \in Range(text) :
              c1 < c2 => vocab_to_int[c1] < vocab_to_int[c2]

C15_Witness ==
    /\ vpc = "built"
    /\ text = <<2, 3, 1, 3>>
    /\ vocab = <<1, 2, 3>>
    /\ encoded = <<1, 2, 0, 2>>

\* ---- properties of the training cell ----
\* C16: every epoch builds a fresh windower over the same corpus and runs
\* exactly n_batches training steps in window order; the first step of
\* every epoch is fed the zero initial state and each later step the
\* final state the step before it returned: state is threaded within an
\* epoch and never carried into the next.
C16_StateThreadedWithinEpoch ==
    /\ tpc # "error"
    /\ ~errored
    /\ calls = (IF tpc = "epoch" \/ tpc = "done" THEN e ELSE e + 1)
    /\ Len(fed) = e * FullBatches + (IF tpc = "batches" THEN Len(yielded) ELSE 0)
    /\ tpc = "done" => (e = MaxEpochs /\ Len(fed) = MaxEpochs * FullBatches)
    /\ \A t \in 1..Len(fed) :
          LET k == (t - 1) % FullBatches
          IN /\ fed[t].epoch = (t - 1) \div FullBatches
             /\ fed[t].inputs = Values(XView(Reshape(Truncated, batch_size), k * n_steps))
             /\ k = 0 => fed[t].state = 0
             /\ k > 0 => fed[t].state = fed[t - 1].final
             /\ fed[t].final # 0
             /\ \A u \in 1..Len(fed) : u # t => fed[u].final # fed[t].final

C16_Witness ==
    /\ tpc = "done"
    /\ batch_size = 1
    /\ n_steps = 1
    /\ Len(arr) = 3
    /\ Len(fed) = 6
    /\ fed[3].state = 2
    /\ fed[4].state = 0
    /\ fed[4].epoch = 1
    /\ fed[5].state = 4

\* C19: loss_batch is created once and never cleared: after e completed
\* epochs it holds e * n_batches losses and train_losses holds e entries,
\* the k-th being the mean over all batches of epochs 1..k, not over the
\* batches of epoch k alone.
C19_MeanOverAllEpochs ==
    /\ Len(train_losses) = e
    /\ Len(loss_batch) = Len(fed)
    /\ (tpc = "epoch" \/ tpc = "done") => Len(loss_batch) = e * FullBatches
    /\ \A k \in 1..Len(train_losses) :
          /\ k * FullBatches <= Len(loss_batch)
          /\ train_losses[k] =
                <<Sum(SubSeq(loss_batch, 1, k * FullBatches)), k * FullBatches>>

C19_Witness ==
    /\ tpc = "done"
    /\ batch_size = 1
    /\ n_steps = 1
    /\ loss_batch = <<1, 1, 0, 0>>
    /\ train_losses = <<<<2, 2>>, <<2, 4>>>>

\* ---- properties of the sampling cell ----
PrimeInVocabulary ==
    Len(prime) >= 1 /\ \A k \in 1..Len(prime) : prime[k] \in Range(vocab)

\* what the claim says of a run on a prime of the vocabulary, while it
\* runs and once it is done
SamplingAsClaimed ==
    /\ gpc # "error"
    /\ IsPrefix(prime, samples)
    /\ Len(samples) = Len(prime) + Len(picks)
    /\ \A k \in 1..Len(picks) : samples[Len(prime) + k] = int_to_vocab[picks[k]]
    /\ \A k \in 1..Len(steps) :
          IF k <= Len(prime)
          THEN steps[k].input = vocab_to_int[prime[k]]
          ELSE /\ k - Len(prime) <= Len(picks)
               /\ steps[k].input = picks[k - Len(prime)]
    /\ gpc = "prime" => (Len(steps) = gi /\ picks = <<>>)
    /\ gpc = "samples" =>
          (Len(steps) = Len(prime) + gi /\ Len(picks) = gi + 1)
    /\ gpc = "done" =>
          /\ Len(samples) = Len(prime) + 1 + n_samples
          /\ Len(steps) = Len(prime) + n_samples
          /\ Len(picks) = n_samples + 1

\* C17: for a non-empty prime of vocabulary characters the sampling cell
\* produces len(prime) + 1 + n_samples characters, the first len(prime)
\* being the prime; the network is stepped once per prime character and
\* n_samples more times, pick_top_n is called n_samples + 1 times, and
\* every step after the prime is fed the symbol the pick before it drew.
C17_SamplingProduces == PrimeInVocabulary => SamplingAsClaimed

\* the same for a vocabulary of two characters or more
C17_TwoOrMoreCharacters ==
    (PrimeInVocabulary /\ Len(vocab) >= 2) => SamplingAsClaimed

C17_TwoOrMoreWitness ==
    /\ gpc = "done"
    /\ text = <<1, 3>>
    /\ prime = <<3, 1>>
    /\ n_samples = 2
    /\ picks = <<1, 0, 1>>
    /\ samples = <<3, 1, 3, 1, 3>>
    /\ Len(steps) = 4
    /\ steps[3].input = 1
    /\ steps[4].input = 0

====
